---- MODULE Spec2Model ----
(***************************************************************************)
(* A model of Homepage/javascript/scripts.js: the drag singleton, the      *)
(* WindowHost and Window classes, openWindowById and the blog loader.      *)
(*                                                                         *)
(* The methods of the source are operators on a record `st` holding the    *)
(* whole program state (host, windows, the DOM state of the surfaces, the  *)
(* drag singleton); an event handler is an action that applies the         *)
(* operators in the order of the handler's code and commits the result.    *)
(* The field `log` of `st` is not program state: it records, for the       *)
(* handler being run, the calls it made (front-bringings, focus arguments, *)
(* repositions, drag callbacks, errors caught and logged).                 *)
(***************************************************************************)
EXTENDS Integers, Sequences, FiniteSets, TLC

VARIABLES
  pc,        \* "loading": the DOMContentLoaded handler has built the host and is
             \* about to wrap the page's windows; "ready" afterwards
  host,      \* the WindowHost (hostRef): windows, activeWindow, maxZIndex, edgeMaximize
  win,       \* the fields of the Window wrapping each surface
  dom,       \* each surface's DOM state: style.display, class "active",
             \* style.zIndex, csWindow, the style's width and height
  drag,      \* the drag singleton: object, x, y, _threshold
  root,      \* host.root.getBoundingClientRect()
  nextInst,  \* the identity the next `new Window` gets
  ev,        \* the last handler run: its event and the calls it made
  gh,        \* history: the last front-bringings, the last drag.start
  blog       \* the blog loader: blogTreesCache, blogEntriesCache, the tree and
             \* content areas, the loadBlogTree calls and click listeners
             \* suspended at an await

vars == <<pc, host, win, dom, drag, root, nextInst, ev, gh, blog>>

\* everything but the blog loader
winvars == <<pc, host, win, dom, drag, root, nextInst, ev, gh>>

-----------------------------------------------------------------------------
(* Program constants *)

StartZIndex == 1000
DefaultWidth == 300
DefaultHeight == 200
TitleThreshold == 10
EdgeMaximizeDist == 5
ResizeEdgeDist == 20
TitleRegion == 30
MinVisible == 50

-----------------------------------------------------------------------------
(* Bounds of the model and the environment it runs in *)

\* front-bringing calls explored on top of StartZIndex
MaxFront == 6
\* front-bringing calls remembered in gh.zhist
ZHistLen == 3
\* handlers run in one behaviour
MaxEvents == 7
\* largest width or height (in absolute value) a resize is followed to
MaxDim == 300
\* page offset of the host root
HostLeft == 4
HostTop == 2
\* fetches of one document (tree or entries) of one blog followed
MaxFetches == 2

Surfaces == {"A", "B", "C"}
None == "none"

\* The natural (stylesheet) box of each surface in page coordinates, and the
\* width/height its computed style reports (0: "auto", parseInt gives NaN).
Layout ==
  [s \in Surfaces |->
     CASE s = "A" -> [left |-> 34, top |-> 12, width |-> 60, height |-> 40,
                      cssW |-> 60, cssH |-> 40]
       [] s = "B" -> [left |-> 44, top |-> 22, width |-> 70, height |-> 30,
                      cssW |-> 70, cssH |-> 30]
       [] OTHER   -> [left |-> 0, top |-> 0, width |-> 0, height |-> 0,
                      cssW |-> 0, cssH |-> 0]]

\* sizes the host root takes (initially the first, others by viewport resize)
RootSizes == << [width |-> 120, height |-> 80], [width |-> 90, height |-> 60] >>

\* the same, and a root lower than the title region and narrower than the
\* windows are wide
AllRootSizes == RootSizes \o << [width |-> 60, height |-> 20] >>

-----------------------------------------------------------------------------
(* Values *)

Max(a, b) == IF a >= b THEN a ELSE b

\* Math.round(a / 2) for an integer a (halves round up)
RoundHalf(a) == (a + 1) \div 2

Geometry(x, y, w, h) == [x |-> x, y |-> y, width |-> w, height |-> h]

\* A surface no Window wraps has no Window fields; the function is total, so
\* it holds this value there (never read while csWindow = 0).
NoWin ==
  [x |-> 0, y |-> 0, width |-> 0, height |-> 0, maximized |-> FALSE,
   oldPosition |-> <<>>, resizing |-> FALSE, resizeX |-> 0, resizeY |-> 0]

EmptyLog == [zs |-> <<>>, focus |-> <<>>, repos |-> <<>>, cb |-> <<>>, err |-> <<>>]

Cur ==
  [host |-> host, win |-> win, dom |-> dom, drag |-> drag, root |-> root,
   nextInst |-> nextInst, log |-> EmptyLog]

\* element.getBoundingClientRect() of surface s
BoundingRect(st, s) ==
  IF ~st.dom[s].display
    THEN [left |-> 0, top |-> 0, width |-> 0, height |-> 0]
    ELSE IF st.dom[s].positioned
      THEN [left |-> st.root.left + st.win[s].x, top |-> st.root.top + st.win[s].y,
            width |-> st.dom[s].styleW, height |-> st.dom[s].styleH]
      ELSE [left |-> Layout[s].left, top |-> Layout[s].top,
            width |-> Layout[s].width, height |-> Layout[s].height]

-----------------------------------------------------------------------------
(* Window: setActive, updatePosition, reposition *)

setActive(st, w, active) == [st EXCEPT !.dom[w].active = active]

\* style.left/top always take x and y; a negative width or height is not a
\* valid CSS length, so the assignment leaves the style's last valid value.
\* (The height of the .window-body child is DOM-only and is not modelled.)
updatePosition(st, w) ==
  [st EXCEPT !.dom[w].positioned = TRUE,
             !.dom[w].styleW = IF st.win[w].width >= 0 THEN st.win[w].width ELSE @,
             !.dom[w].styleH = IF st.win[w].height >= 0 THEN st.win[w].height ELSE @]

\* the log entry of a reposition() call: the window, its geometry when the
\* call was made and when it returned
Repositioned(st, w, s1) ==
  [s1 EXCEPT !.log.repos =
     Append(@, [w |-> w, maximized |-> st.win[w].maximized,
                before |-> Geometry(st.win[w].x, st.win[w].y,
                                    st.win[w].width, st.win[w].height),
                after |-> Geometry(s1.win[w].x, s1.win[w].y,
                                   s1.win[w].width, s1.win[w].height)])]

repositionNoLeftClamp(st, w) ==
  LET g == st.win[w]
      ny == IF g.y < 0 THEN 0
            ELSE IF g.y + TitleRegion > st.root.height THEN st.root.height - TitleRegion
            ELSE g.y
      nx == IF g.x + TitleRegion > st.root.width THEN st.root.width - TitleRegion
            ELSE g.x
      s1 == IF g.maximized
              THEN [st EXCEPT !.win[w].x = 0, !.win[w].y = 0,
                              !.win[w].width = st.root.width,
                              !.win[w].height = st.root.height]
              ELSE [st EXCEPT !.win[w].x = nx, !.win[w].y = ny]
  IN  updatePosition(Repositioned(st, w, s1), w)

repositionNoTopClamp(st, w) ==
  LET g == st.win[w]
      ny == IF g.y + TitleRegion > st.root.height THEN st.root.height - TitleRegion
            ELSE g.y
      nx == IF g.x + g.width < MinVisible THEN MinVisible - g.width
            ELSE IF g.x + TitleRegion > st.root.width THEN st.root.width - TitleRegion
            ELSE g.x
      s1 == IF g.maximized
              THEN [st EXCEPT !.win[w].x = 0, !.win[w].y = 0,
                              !.win[w].width = st.root.width,
                              !.win[w].height = st.root.height]
              ELSE [st EXCEPT !.win[w].x = nx, !.win[w].y = ny]
  IN  updatePosition(Repositioned(st, w, s1), w)

repositionLeftClampAdds(st, w) ==
  LET g == st.win[w]
      ny == IF g.y < 0 THEN 0
            ELSE IF g.y + TitleRegion > st.root.height THEN st.root.height - TitleRegion
            ELSE g.y
      nx == IF g.x + g.width < MinVisible THEN g.x + MinVisible - g.width
            ELSE IF g.x + TitleRegion > st.root.width THEN st.root.width - TitleRegion
            ELSE g.x
      s1 == IF g.maximized
              THEN [st EXCEPT !.win[w].x = 0, !.win[w].y = 0,
                              !.win[w].width = st.root.width,
                              !.win[w].height = st.root.height]
              ELSE [st EXCEPT !.win[w].x = nx, !.win[w].y = ny]
  IN  updatePosition(Repositioned(st, w, s1), w)

reposition(st, w) ==
  LET g == st.win[w]
      ny == IF g.y < 0 THEN 0
            ELSE IF g.y + TitleRegion > st.root.height THEN st.root.height - TitleRegion
            ELSE g.y
      nx == IF g.x + g.width < MinVisible THEN MinVisible - g.width
            ELSE IF g.x + TitleRegion > st.root.width THEN st.root.width - TitleRegion
            ELSE g.x
      s1 == IF g.maximized
              THEN [st EXCEPT !.win[w].x = 0, !.win[w].y = 0,
                              !.win[w].width = st.root.width,
                              !.win[w].height = st.root.height]
              ELSE [st EXCEPT !.win[w].x = nx, !.win[w].y = ny]
  IN  updatePosition(Repositioned(st, w, s1), w)

-----------------------------------------------------------------------------
(* WindowHost: bringToFront, focus *)

bringToFrontNoIncrement(st, w) ==
  IF w = None THEN st
  ELSE [st EXCEPT !.dom[w].zIndex = st.host.maxZIndex,
                  !.log.zs = Append(@, [w |-> w, z |-> st.host.maxZIndex])]

bringToFront(st, w) ==
  IF w = None THEN st
  ELSE [st EXCEPT !.host.maxZIndex = @ + 1,
                  !.dom[w].zIndex = st.host.maxZIndex + 1,
                  !.log.zs = Append(@, [w |-> w, z |-> st.host.maxZIndex + 1])]

focusKeepsPrevious(st, w) ==
  LET a  == st.host.activeWindow
      s2 == [st EXCEPT !.host.activeWindow = w,
                       !.log.focus = Append(@, [w |-> w, prev |-> a])]
  IN  IF w # None THEN bringToFront(setActive(s2, w, TRUE), w) ELSE s2

focusWithoutRaise(st, w) ==
  LET a  == st.host.activeWindow
      s1 == IF a # None /\ a # w THEN setActive(st, a, FALSE) ELSE st
      s2 == [s1 EXCEPT !.host.activeWindow = w,
                       !.log.focus = Append(@, [w |-> w, prev |-> a])]
  IN  IF w # None THEN setActive(s2, w, TRUE) ELSE s2

focus(st, w) ==
  LET a  == st.host.activeWindow
      s1 == IF a # None /\ a # w THEN setActive(st, a, FALSE) ELSE st
      s2 == [s1 EXCEPT !.host.activeWindow = w,
                       !.log.focus = Append(@, [w |-> w, prev |-> a])]
  IN  IF w # None THEN bringToFront(setActive(s2, w, TRUE), w) ELSE s2

-----------------------------------------------------------------------------
(* Window constructor and WindowHost.create *)

\* Window.init: measure the surface, or fall back to the computed style and
\* centre the window in the host
init(st, w) ==
  LET rect == BoundingRect(st, w)
      fw   == IF Layout[w].cssW # 0 THEN Layout[w].cssW ELSE DefaultWidth
      fh   == IF Layout[w].cssH # 0 THEN Layout[w].cssH ELSE DefaultHeight
      g    == IF rect.width > 0
                THEN Geometry(Max(0, rect.left - st.root.left),
                              Max(0, rect.top - st.root.top),
                              rect.width, rect.height)
                ELSE Geometry(Max(0, RoundHalf(st.root.width - fw)),
                              Max(0, RoundHalf(st.root.height - fh)), fw, fh)
  IN  updatePosition(
        [st EXCEPT !.win[w].x = g.x, !.win[w].y = g.y,
                   !.win[w].width = g.width, !.win[w].height = g.height], w)

\* new Window(root, host): returns the state; the instance is nextInst
newWindow(st, w) ==
  init([st EXCEPT !.dom[w].csWindow = st.nextInst,
                  !.nextInst = @ + 1,
                  !.win[w] = [NoWin EXCEPT !.width = DefaultWidth,
                                           !.height = DefaultHeight]], w)

Instance(st, w) == [root |-> w, inst |-> st.dom[w].csWindow]

createAlwaysWraps(st, w) ==
  LET s1 == newWindow(st, w)
      s2 == [s1 EXCEPT !.host.windows = Append(@, Instance(s1, w))]
  IN  focus(s2, w)

create(st, w) ==
  IF st.dom[w].csWindow # 0
    THEN focus(reposition(st, w), w)
    ELSE LET s1 == newWindow(st, w)
             s2 == [s1 EXCEPT !.host.windows = Append(@, Instance(s1, w))]
         IN  focus(s2, w)

\* WindowHost.getWindowById: the first managed window whose root has this id
getWindowById(st, id) ==
  LET hits == SelectSeq(st.host.windows, LAMBDA i : i.root = id)
  IN  IF hits = <<>> THEN None ELSE hits[1].root

-----------------------------------------------------------------------------
(* Window: maximize, show, hide, dragMove, dragEnd *)

CurrentGeometry(st, w) ==
  Geometry(st.win[w].x, st.win[w].y, st.win[w].width, st.win[w].height)

maximizeRestoresSizeOnly(st, w) ==
  IF ~st.win[w].maximized
    THEN reposition([st EXCEPT !.win[w].maximized = TRUE,
                               !.win[w].oldPosition = <<CurrentGeometry(st, w)>>], w)
    ELSE LET s1 == [st EXCEPT !.win[w].maximized = FALSE]
             old == st.win[w].oldPosition
         IN  IF old # <<>>
               THEN reposition([s1 EXCEPT !.win[w].width = old[1].width,
                                          !.win[w].height = old[1].height], w)
               ELSE s1

maximize(st, w) ==
  IF ~st.win[w].maximized
    THEN reposition([st EXCEPT !.win[w].maximized = TRUE,
                               !.win[w].oldPosition = <<CurrentGeometry(st, w)>>], w)
    ELSE LET s1 == [st EXCEPT !.win[w].maximized = FALSE]
             old == st.win[w].oldPosition
         IN  IF old # <<>>
               THEN reposition([s1 EXCEPT !.win[w].x = old[1].x, !.win[w].y = old[1].y,
                                          !.win[w].width = old[1].width,
                                          !.win[w].height = old[1].height], w)
               ELSE s1

show(st, w) ==
  LET s1   == [st EXCEPT !.dom[w].display = TRUE]
      rect == BoundingRect(s1, w)
      s2   == IF rect.width > 0
                THEN [s1 EXCEPT !.win[w].width = rect.width, !.win[w].height = rect.height]
                ELSE s1
  IN  focus(reposition(s2, w), w)

hide(st, w) == focus([st EXCEPT !.dom[w].display = FALSE], None)

\* Math.floor(e.clientX - hostRect.left - width * e.clientX / hostRect.width)
AnchorX(st, width, e) ==
  e.clientX - st.root.left + ((0 - width * e.clientX) \div st.root.width)

dragMoveResizeKeepsOrigin(st, w, dx, dy, e) ==
  LET g == st.win[w]
  IN  IF g.resizing
        THEN updatePosition(
               [st EXCEPT !.win[w].width = @ + dx * g.resizeX,
                          !.win[w].height = @ + dy * g.resizeY], w)
      ELSE IF st.host.edgeMaximize /\ e.clientY - st.root.top < EdgeMaximizeDist
        THEN IF ~g.maximized THEN maximize(st, w) ELSE st
      ELSE LET s1 == IF g.maximized
                       THEN IF g.oldPosition # <<>>
                              THEN [st EXCEPT !.win[w].maximized = FALSE,
                                              !.win[w].width = g.oldPosition[1].width,
                                              !.win[w].height = g.oldPosition[1].height,
                                              !.win[w].x =
                                                 AnchorX(st, g.oldPosition[1].width, e)]
                              ELSE [st EXCEPT !.win[w].maximized = FALSE]
                       ELSE st
           IN  updatePosition([s1 EXCEPT !.win[w].x = @ + dx, !.win[w].y = @ + dy], w)

dragMove(st, w, dx, dy, e) ==
  LET g == st.win[w]
  IN  IF g.resizing
        THEN updatePosition(
               [st EXCEPT !.win[w].x = IF g.resizeX < 0 THEN @ + dx ELSE @,
                          !.win[w].y = IF g.resizeY < 0 THEN @ + dy ELSE @,
                          !.win[w].width = @ + dx * g.resizeX,
                          !.win[w].height = @ + dy * g.resizeY], w)
      ELSE IF st.host.edgeMaximize /\ e.clientY - st.root.top < EdgeMaximizeDist
        THEN IF ~g.maximized THEN maximize(st, w) ELSE st
      ELSE LET s1 == IF g.maximized
                       THEN IF g.oldPosition # <<>>
                              THEN [st EXCEPT !.win[w].maximized = FALSE,
                                              !.win[w].width = g.oldPosition[1].width,
                                              !.win[w].height = g.oldPosition[1].height,
                                              !.win[w].x =
                                                 AnchorX(st, g.oldPosition[1].width, e)]
                              ELSE [st EXCEPT !.win[w].maximized = FALSE]
                       ELSE st
           IN  updatePosition([s1 EXCEPT !.win[w].x = @ + dx, !.win[w].y = @ + dy], w)

dragEnd(st, w) ==
  LET s1 == IF st.win[w].resizing
              THEN [st EXCEPT !.win[w].resizing = FALSE,
                              !.win[w].resizeX = 0, !.win[w].resizeY = 0]
              ELSE st
  IN  reposition(s1, w)

-----------------------------------------------------------------------------
(* The drag singleton: start and the document's mousemove and mouseup
   listeners *)

dragStartKeepsTarget(st, obj, e, threshold) ==
  IF st.drag.object # None THEN st
  ELSE [st EXCEPT !.drag = [object |-> obj, x |-> e.clientX, y |-> e.clientY,
                            threshold |-> threshold * threshold]]

dragStart(st, obj, e, threshold) ==
  [st EXCEPT !.drag = [object |-> obj, x |-> e.clientX, y |-> e.clientY,
                       threshold |-> threshold * threshold]]

Callback(name, target, dx, dy) ==
  [name |-> name, target |-> target, dx |-> dx, dy |-> dy]

\* Where a callback throws: not at all, before it has changed anything, or
\* after all its changes (in its last statement).
NoThrow == "no"
Thrown == {"entry", "exit"}

\* catch (err) { console.error(msg, err); }
caught(st, msg) == [st EXCEPT !.log.err = Append(@, msg)]

\* try { object.dragMove(dx, dy, e); } catch (err) { ... }
tryDragMove(st, o, dx, dy, e, thrown) ==
  IF thrown = "entry" THEN caught(st, "dragMove error")
  ELSE IF thrown = "exit" THEN caught(dragMove(st, o, dx, dy, e), "dragMove error")
  ELSE dragMove(st, o, dx, dy, e)

\* try { object.dragEnd(); } catch (err) { ... }
tryDragEnd(st, o, thrown) ==
  IF thrown = "entry" THEN caught(st, "dragEnd error")
  ELSE IF thrown = "exit" THEN caught(dragEnd(st, o), "dragEnd error")
  ELSE dragEnd(st, o)

documentMouseMoveTracksPoint(st, e, thrown) ==
  IF st.drag.object = None THEN st
  ELSE
    LET dx == e.clientX - st.drag.x
        dy == e.clientY - st.drag.y
        o  == st.drag.object
    IN  IF st.drag.threshold # 0 /\ dx * dx + dy * dy < st.drag.threshold
          THEN [st EXCEPT !.drag.x = e.clientX, !.drag.y = e.clientY]
          ELSE LET s1 == [st EXCEPT !.drag.threshold = 0,
                                    !.log.cb = Append(@, Callback("dragMove", o, dx, dy))]
                   s2 == tryDragMove(s1, o, dx, dy, e, thrown)
               IN  [s2 EXCEPT !.drag.x = e.clientX, !.drag.y = e.clientY]

documentMouseMoveStalePoint(st, e, thrown) ==
  IF st.drag.object = None THEN st
  ELSE
    LET dx == e.clientX - st.drag.x
        dy == e.clientY - st.drag.y
        o  == st.drag.object
    IN  IF st.drag.threshold # 0 /\ dx * dx + dy * dy < st.drag.threshold
          THEN st
          ELSE LET s1 == [st EXCEPT !.drag.threshold = 0,
                                    !.log.cb = Append(@, Callback("dragMove", o, dx, dy))]
               IN  tryDragMove(s1, o, dx, dy, e, thrown)

\* the document's mousemove listener; thrown tells where object.dragMove
\* throws, if it does
documentMouseMove(st, e, thrown) ==
  IF st.drag.object = None THEN st
  ELSE
    LET dx == e.clientX - st.drag.x
        dy == e.clientY - st.drag.y
        o  == st.drag.object
    IN  IF st.drag.threshold # 0 /\ dx * dx + dy * dy < st.drag.threshold
          THEN st
          ELSE LET s1 == [st EXCEPT !.drag.threshold = 0,
                                    !.log.cb = Append(@, Callback("dragMove", o, dx, dy))]
                   s2 == tryDragMove(s1, o, dx, dy, e, thrown)
               IN  [s2 EXCEPT !.drag.x = e.clientX, !.drag.y = e.clientY]

documentMouseUpAlwaysEnds(st, thrown) ==
  IF st.drag.object = None THEN st
  ELSE LET o  == st.drag.object
           s1 == tryDragEnd([st EXCEPT !.log.cb =
                                Append(@, Callback("dragEnd", o, 0, 0))], o, thrown)
       IN  [s1 EXCEPT !.drag.object = None]

\* without the try: the error leaves the listener before `object = null`
documentMouseUpNoCatch(st, thrown) ==
  IF st.drag.object = None THEN st
  ELSE LET o  == st.drag.object
           s0 == [st EXCEPT !.log.cb = Append(@, Callback("dragEnd", o, 0, 0))]
       IN  IF st.drag.threshold # 0 THEN [st EXCEPT !.drag.object = None]
           ELSE IF thrown = "entry" THEN s0
           ELSE IF thrown = "exit" THEN dragEnd(s0, o)
           ELSE [dragEnd(s0, o) EXCEPT !.drag.object = None]

\* the document's mouseup listener; thrown tells where object.dragEnd throws,
\* if it does
documentMouseUp(st, thrown) ==
  IF st.drag.object = None THEN st
  ELSE LET o  == st.drag.object
           s1 == IF st.drag.threshold = 0
                   THEN tryDragEnd([st EXCEPT !.log.cb =
                                       Append(@, Callback("dragEnd", o, 0, 0))], o, thrown)
                   ELSE st
       IN  [s1 EXCEPT !.drag.object = None]

-----------------------------------------------------------------------------
(* Window.attachEvents: the listeners on the surface *)

\* the surface's mousemove listener: edge detection for the resize cursor
rootMouseMove(st, w, e, targetIsRoot) ==
  IF st.win[w].resizing THEN st
  ELSE IF targetIsRoot /\ ~st.win[w].maximized
    THEN LET rect == BoundingRect(st, w)
             x == e.clientX - rect.left
             y == e.clientY - rect.top
         IN  [st EXCEPT !.win[w].resizeY = IF y < ResizeEdgeDist THEN -1
                                           ELSE IF y > rect.height - ResizeEdgeDist THEN 1
                                           ELSE 0,
                        !.win[w].resizeX = IF x < ResizeEdgeDist THEN -1
                                           ELSE IF x > rect.width - ResizeEdgeDist THEN 1
                                           ELSE 0]
    ELSE [st EXCEPT !.win[w].resizeX = 0, !.win[w].resizeY = 0]

\* mousedown on the title: the title's listener, then the surface's two
titleMouseDown(st, w, e) ==
  focus(dragStart(st, w, e, IF st.win[w].maximized THEN TitleThreshold ELSE 0), w)

\* mousedown on the frame itself (e.target === this.root)
frameMouseDown(st, w, e) ==
  LET s1 == focus(st, w)
  IN  IF ~s1.win[w].maximized /\ (s1.win[w].resizeX # 0 \/ s1.win[w].resizeY # 0)
        THEN dragStart([s1 EXCEPT !.win[w].resizing = TRUE], w, e, 0)
        ELSE s1

-----------------------------------------------------------------------------
(* openWindowById, with hostRef set *)

openWindowByIdKnownNotRaised(st, id) ==
  LET s1   == [st EXCEPT !.dom[id].display = TRUE]
      inst == getWindowById(s1, id)
  IN  IF inst # None
        THEN s1
        ELSE bringToFront(create(s1, id), id)

openWindowById(st, id) ==
  LET s1   == [st EXCEPT !.dom[id].display = TRUE]
      inst == getWindowById(s1, id)
  IN  IF inst # None
        THEN bringToFront(show(s1, inst), inst)
        ELSE bringToFront(create(s1, id), id)

\* closeAOL, closeHint, closeSignon: getElementById(id).style.display = 'none'
closeHelper(st, id) == [st EXCEPT !.dom[id].display = FALSE]

-----------------------------------------------------------------------------
(* The blog loader: loadBlogTree and the click listener it puts on the tree's
   links. Both are async: a call runs to its next await, where it is kept in
   blog.tasks until the awaited promise settles. *)

\* the blogs of blogMap (winId, which is also the blogId)
Blogs == {"A", "B"}

\* data-content of the links of a tree document
ContentIds == {"entry42", "entry7"}

\* ids of the elements of the entries document
EntryIds == {"entry42"}

\* how a fetch settles: response.ok, !response.ok, or the promise rejects
Outcomes == {"ok", "notok", "rejected"}

\* innerHTML of the content area
Content(kind, id) == [kind |-> kind, id |-> id]

\* the tail of the click listener: blogEntriesCache[blogId] is set
render(bs, b, id) ==
  [bs EXCEPT !.content[b] = IF id \in EntryIds THEN Content("entry", id)
                            ELSE Content("notfound", id)]

Task(kind, b, id, at) == [kind |-> kind, b |-> b, id |-> id, at |-> at]

Without(s, i) == SubSeq(s, 1, i - 1) \o SubSeq(s, i + 1, Len(s))

\* loadBlogTree(blogId, ...) up to `await fetch(treeFile)`
loadBlogTree(bs, b) ==
  IF bs.trees[b] THEN bs
  ELSE [bs EXCEPT !.tasks = Append(@, Task("tree", b, None, "fetch")),
                  !.fetched[b].tree = @ + 1]

\* loadBlogTree from `await fetch(treeFile)` on, the fetch having settled
treeResponse(bs, i, outcome) ==
  LET b == bs.tasks[i].b
  IN  IF outcome = "rejected"
        THEN [bs EXCEPT !.tasks = Without(@, i),
                        !.errors = Append(@, "loadBlogTree error")]
      ELSE IF outcome = "notok"
        THEN [bs EXCEPT !.tasks = Without(@, i), !.tree[b] = "failed"]
      ELSE [bs EXCEPT !.tasks[i].at = "text"]

\* loadBlogTree from `await response.text()` on: the container takes the
\* tree, its links get the click listener, the blog is marked loaded
treeText(bs, i) ==
  LET b == bs.tasks[i].b
  IN  [bs EXCEPT !.tasks = Without(@, i), !.tree[b] = "links", !.trees[b] = TRUE]

linkClickIgnoresCache(bs, b, id) ==
  [bs EXCEPT !.tasks = Append(@, Task("click", b, id, "fetch")),
             !.fetched[b].entries = @ + 1]

\* the click listener of a tree link up to `await fetch(entriesFile)`, or to
\* its end when the entries are cached
linkClick(bs, b, id) ==
  IF ~bs.entries[b]
    THEN [bs EXCEPT !.tasks = Append(@, Task("click", b, id, "fetch")),
                    !.fetched[b].entries = @ + 1]
    ELSE render(bs, b, id)

\* the click listener from `await fetch(entriesFile)` on; the listener has no
\* try, so a rejection ends it as an unhandled rejection
entriesResponse(bs, i, outcome) ==
  LET b == bs.tasks[i].b
  IN  IF outcome = "rejected"
        THEN [bs EXCEPT !.tasks = Without(@, i),
                        !.errors = Append(@, "unhandled rejection")]
      ELSE IF outcome = "notok"
        THEN [bs EXCEPT !.tasks = Without(@, i), !.content[b] = Content("failed", None)]
      ELSE [bs EXCEPT !.tasks[i].at = "text"]

\* the click listener from `await r2.text()` on
entriesText(bs, i) ==
  LET b  == bs.tasks[i].b
      id == bs.tasks[i].id
  IN  render([bs EXCEPT !.tasks = Without(@, i), !.entries[b] = TRUE], b, id)

-----------------------------------------------------------------------------
(* Initial state: the host has just been constructed (hostRef = new
   WindowHost(hostRoot)), no surface is wrapped *)

\* the surfaces of class "window", in document order
WindowClass == <<"A", "B">>

NoPoint == [clientX |-> 0, clientY |-> 0]
NoSession ==
  [target |-> None, x |-> 0, y |-> 0, T |-> 0, replaced |-> FALSE,
   exceeded |-> FALSE, suppressed |-> FALSE, threw |-> FALSE]

\* the pointer positions explored (clientX, clientY): inside window A as
\* first placed, 6 and 10 away from there, within EdgeMaximizeDist of the
\* root's top, and far to the upper left
Points ==
  {[clientX |-> 90, clientY |-> 24], [clientX |-> 96, clientY |-> 24],
   [clientX |-> 96, clientY |-> 32], [clientX |-> 90, clientY |-> 4],
   [clientX |-> 10, clientY |-> 8]}

Init ==
  /\ pc = "loading"
  /\ host = [windows |-> <<>>, activeWindow |-> None, maxZIndex |-> StartZIndex,
             edgeMaximize |-> TRUE]
  /\ win = [s \in Surfaces |-> NoWin]
  /\ \E shownB \in BOOLEAN :
       dom = [s \in Surfaces |->
                [display |-> (s = "A" \/ (s = "B" /\ shownB)), active |-> FALSE,
                 zIndex |-> 0, csWindow |-> 0, positioned |-> FALSE,
                 styleW |-> 0, styleH |-> 0]]
  /\ drag = [object |-> None, x |-> 0, y |-> 0, threshold |-> 0]
  /\ root = [left |-> HostLeft, top |-> HostTop,
             width |-> RootSizes[1].width, height |-> RootSizes[1].height]
  /\ nextInst = 1
  /\ ev = [type |-> "construct", w |-> None, e |-> NoPoint, ret |-> None, log |-> EmptyLog]
  /\ gh = [zhist |-> <<>>, sess |-> NoSession, prev |-> [type |-> "none", w |-> None],
           n |-> 0]
  /\ blog = [trees |-> [b \in Blogs |-> FALSE], entries |-> [b \in Blogs |-> FALSE],
             tree |-> [b \in Blogs |-> "empty"],
             content |-> [b \in Blogs |-> Content("initial", None)],
             tasks |-> <<>>, errors |-> <<>>,
             fetched |-> [b \in Blogs |-> [tree |-> 0, entries |-> 0]],
             last |-> [type |-> "none", b |-> None, id |-> None, outcome |-> None]]

-----------------------------------------------------------------------------
(* Handlers as actions *)

LastN(s, n) == IF Len(s) <= n THEN s ELSE SubSeq(s, Len(s) - n + 1, Len(s))

Abs(a) == IF a < 0 THEN 0 - a ELSE a

\* The handler's result becomes the state. The guards cap the number of
\* handlers run, the counter and the sizes a resize reaches.
CommitWindows(st, type, w, e, ret, sess) ==
  /\ gh.n < MaxEvents
  /\ st.host.maxZIndex <= StartZIndex + MaxFront
  /\ \A s \in Surfaces : Abs(st.win[s].width) <= MaxDim /\ Abs(st.win[s].height) <= MaxDim
  /\ host' = st.host
  /\ win' = st.win
  /\ dom' = st.dom
  /\ drag' = st.drag
  /\ root' = st.root
  /\ nextInst' = st.nextInst
  /\ ev' = [type |-> type, w |-> w, e |-> e, ret |-> ret, log |-> st.log]
  /\ gh' = [zhist |-> LastN(gh.zhist \o st.log.zs, ZHistLen), sess |-> sess,
            prev |-> [type |-> ev.type, w |-> ev.w], n |-> gh.n + 1]

\* a handler that does not touch the blog loader
Commit(st, type, w, e, ret, sess) ==
  /\ CommitWindows(st, type, w, e, ret, sess)
  /\ blog' = blog

Wrapped(s) == dom[s].csWindow # 0

\* the pointer at e is over the displayed box of surface s
Hit(s, e) ==
  LET rect == BoundingRect(Cur, s)
  IN  /\ Wrapped(s)
      /\ dom[s].display
      /\ rect.left <= e.clientX /\ e.clientX < rect.left + rect.width
      /\ rect.top <= e.clientY /\ e.clientY < rect.top + rect.height

RECURSIVE createAll(_, _)
createAll(st, ws) ==
  IF ws = <<>> THEN st ELSE createAll(create(st, Head(ws)), Tail(ws))

\* the rest of the DOMContentLoaded handler: reveal the hidden windows, wrap
\* every surface of class "window", hide the revealed ones again
DOMContentLoaded ==
  /\ pc = "loading"
  /\ pc' = "ready"
  /\ LET hidden == {i \in 1..Len(WindowClass) : ~dom[WindowClass[i]].display}
         s0 == [Cur EXCEPT !.dom = [s \in Surfaces |->
                   IF \E i \in hidden : WindowClass[i] = s
                     THEN [@[s] EXCEPT !.display = TRUE] ELSE @[s]]]
         s1 == createAll(s0, WindowClass)
         s2 == [s1 EXCEPT !.dom = [s \in Surfaces |->
                   IF \E i \in hidden : WindowClass[i] = s
                     THEN [@[s] EXCEPT !.display = FALSE] ELSE @[s]]]
     IN  Commit(s2, "DOMContentLoaded", None, NoPoint, None, gh.sess)

Ready == pc = "ready" /\ pc' = pc

\* hostRef.create(el)
Create(s) ==
  /\ Ready
  /\ LET st == create(Cur, s)
     IN  Commit(st, "create", s, NoPoint, Instance(st, s), gh.sess)

\* host.focus(w), w a managed window or none
Focus(w) ==
  /\ Ready
  /\ IF w = None THEN TRUE ELSE Wrapped(w)
  /\ Commit(focus(Cur, w), "focus", w, NoPoint, None, gh.sess)

\* hostRef.bringToFront(w)
BringToFront(w) ==
  /\ Ready
  /\ Wrapped(w)
  /\ Commit(bringToFront(Cur, w), "bringToFront", w, NoPoint, None, gh.sess)

OpenWindowById(id) ==
  /\ Ready
  /\ Commit(openWindowById(Cur, id), "openWindowById", id, NoPoint, None, gh.sess)

Show(w) ==
  /\ Ready
  /\ Wrapped(w)
  /\ Commit(show(Cur, w), "show", w, NoPoint, None, gh.sess)

Hide(w) ==
  /\ Ready
  /\ Wrapped(w)
  /\ Commit(hide(Cur, w), "hide", w, NoPoint, None, gh.sess)

\* click on the [data-close] button of the title bar
CloseClick(w) ==
  /\ Ready
  /\ Wrapped(w) /\ dom[w].display
  /\ Commit(focus([Cur EXCEPT !.dom[w].display = FALSE], None),
            "closeClick", w, NoPoint, None, gh.sess)

\* closeAOL(), closeHint() or closeSignon(), id the window each names
CloseHelper(id) ==
  /\ Ready
  /\ Commit(closeHelper(Cur, id), "closeHelper", id, NoPoint, None, gh.sess)

\* click on the [data-maximize] button, or double click on the title
MaximizeClick(w) ==
  /\ Ready
  /\ Wrapped(w) /\ dom[w].display
  /\ Commit(maximize(Cur, w), "maximize", w, NoPoint, None, gh.sess)

\* mousedown on the host root outside every window
BackgroundMouseDown ==
  /\ Ready
  /\ Commit(focus(Cur, None), "backgroundMouseDown", None, NoPoint, None, gh.sess)

\* mousedown on a child of the window other than its title
ChildMouseDown(w, e) ==
  /\ Ready
  /\ Hit(w, e)
  /\ Commit(focus(Cur, w), "childMouseDown", w, e, None, gh.sess)

\* what is known of the session the last drag.start began: its target, start
\* point and threshold, whether it replaced another target's session, whether
\* a move has met the threshold, whether a move fell short of it before,
\* whether one of its callbacks threw
SessionStart(w, e, T) ==
  [target |-> w, x |-> e.clientX, y |-> e.clientY, T |-> T,
   replaced |-> (drag.object # None /\ drag.object # w),
   exceeded |-> FALSE, suppressed |-> FALSE, threw |-> FALSE]

DistanceSquared(e, x, y) ==
  (e.clientX - x) * (e.clientX - x) + (e.clientY - y) * (e.clientY - y)

SessionMoved(e) ==
  IF drag.object = None THEN gh.sess
  ELSE LET far == DistanceSquared(e, gh.sess.x, gh.sess.y) >= gh.sess.T * gh.sess.T
       IN  [gh.sess EXCEPT !.exceeded = @ \/ far,
                           !.suppressed = @ \/ (~gh.sess.exceeded /\ ~far)]

TitleMouseDown(w, e) ==
  /\ Ready
  /\ Hit(w, e)
  /\ Commit(titleMouseDown(Cur, w, e), "titleMouseDown", w, e, None,
            SessionStart(w, e, IF win[w].maximized THEN TitleThreshold ELSE 0))

FrameMouseDown(w, e) ==
  /\ Ready
  /\ Hit(w, e)
  /\ LET st == frameMouseDown(Cur, w, e)
     IN  Commit(st, "frameMouseDown", w, e, None,
                IF st.win[w].resizing /\ st.drag.object = w /\ ~win[w].maximized
                   /\ (win[w].resizeX # 0 \/ win[w].resizeY # 0)
                  THEN SessionStart(w, e, 0) ELSE gh.sess)

\* a mousemove over no window: the document's listener alone
MouseMove(e) ==
  /\ Ready
  /\ \A s \in Surfaces : ~Hit(s, e)
  /\ Commit(documentMouseMove(Cur, e, NoThrow), "mousemove", None, e, None,
            SessionMoved(e))

\* a mousemove over window w, on its frame (targetIsRoot) or on a child: the
\* surface's listener, then the document's
MouseMoveOver(w, e, targetIsRoot) ==
  /\ Ready
  /\ Hit(w, e)
  /\ Commit(documentMouseMove(rootMouseMove(Cur, w, e, targetIsRoot), e, NoThrow),
            "mousemove", None, e, None, SessionMoved(e))

MouseUp ==
  /\ Ready
  /\ Commit(documentMouseUp(Cur, NoThrow), "mouseup", None, NoPoint, None, gh.sess)

\* a mousemove over no window whose dragMove callback throws (ev.ret records
\* where)
MouseMoveThrows(e, thrown) ==
  /\ Ready
  /\ \A s \in Surfaces : ~Hit(s, e)
  /\ LET st == documentMouseMove(Cur, e, thrown)
     IN  /\ st.log.cb # <<>>
         /\ Commit(st, "mousemove", None, e, thrown,
                   [SessionMoved(e) EXCEPT !.threw = TRUE])

\* a mouseup whose dragEnd callback throws
MouseUpThrows(thrown) ==
  /\ Ready
  /\ LET st == documentMouseUp(Cur, thrown)
     IN  /\ st.log.cb # <<>>
         /\ Commit(st, "mouseup", None, NoPoint, thrown, [gh.sess EXCEPT !.threw = TRUE])

RECURSIVE repositionAll(_, _)
repositionAll(st, ws) ==
  IF ws = <<>> THEN st ELSE repositionAll(reposition(st, Head(ws).root), Tail(ws))

\* the window's resize listener, the root having taken size AllRootSizes[i]
ViewportResize(i) ==
  /\ Ready
  /\ LET s0 == [Cur EXCEPT !.root.width = AllRootSizes[i].width,
                            !.root.height = AllRootSizes[i].height]
     IN  Commit(repositionAll(s0, s0.host.windows), "resize", None, NoPoint, None, gh.sess)

\* The blog loader's steps. blog.last records the step; the errors logged are
\* those of the step.
BlogStep(bs, type, b, id, outcome) ==
  /\ \A c \in Blogs : bs.fetched[c].tree <= MaxFetches /\ bs.fetched[c].entries <= MaxFetches
  /\ blog' = [bs EXCEPT !.last = [type |-> type, b |-> b, id |-> id, outcome |-> outcome]]

\* click on the menu item of blog b: openWindowById(b.winId); loadBlogTree(...)
MenuClick(b) ==
  /\ Ready
  /\ CommitWindows(openWindowById(Cur, b), "menuClick", b, NoPoint, None, gh.sess)
  /\ BlogStep(loadBlogTree([blog EXCEPT !.errors = <<>>], b), "menuClick", b, None, None)

TreeTasks == {i \in 1..Len(blog.tasks) : blog.tasks[i].kind = "tree"}
ClickTasks == {i \in 1..Len(blog.tasks) : blog.tasks[i].kind = "click"}

\* the tree fetch of task i settles
TreeResponse(i, outcome) ==
  /\ i \in TreeTasks /\ blog.tasks[i].at = "fetch"
  /\ BlogStep(treeResponse([blog EXCEPT !.errors = <<>>], i, outcome),
              "treeResponse", blog.tasks[i].b, None, outcome)
  /\ UNCHANGED winvars

\* response.text() of task i resolves
TreeText(i) ==
  /\ i \in TreeTasks /\ blog.tasks[i].at = "text"
  /\ BlogStep(treeText([blog EXCEPT !.errors = <<>>], i),
              "treeText", blog.tasks[i].b, None, None)
  /\ UNCHANGED winvars

\* click on the link with data-content id of blog b's tree
LinkClick(b, id) ==
  /\ blog.tree[b] = "links"
  /\ BlogStep(linkClick([blog EXCEPT !.errors = <<>>], b, id), "linkClick", b, id, None)
  /\ UNCHANGED winvars

\* the entries fetch of task i settles
EntriesResponse(i, outcome) ==
  /\ i \in ClickTasks /\ blog.tasks[i].at = "fetch"
  /\ BlogStep(entriesResponse([blog EXCEPT !.errors = <<>>], i, outcome),
              "entriesResponse", blog.tasks[i].b, blog.tasks[i].id, outcome)
  /\ UNCHANGED winvars

\* r2.text() of task i resolves
EntriesText(i) ==
  /\ i \in ClickTasks /\ blog.tasks[i].at = "text"
  /\ BlogStep(entriesText([blog EXCEPT !.errors = <<>>], i),
              "entriesText", blog.tasks[i].b, blog.tasks[i].id, None)
  /\ UNCHANGED winvars

-----------------------------------------------------------------------------
(* Spec: the host's operations (creation, focus, stacking, show and hide) *)

Next ==
  \/ DOMContentLoaded
  \/ \E s \in Surfaces : Create(s)
  \/ \E w \in Surfaces \cup {None} : Focus(w)
  \/ \E w \in Surfaces : BringToFront(w)
  \/ \E s \in Surfaces : OpenWindowById(s)
  \/ \E w \in Surfaces : Show(w)
  \/ \E w \in Surfaces : Hide(w)
  \/ \E w \in Surfaces : CloseClick(w)
  \/ BackgroundMouseDown
  \/ \E i \in 1..Len(RootSizes) : ViewportResize(i)

Spec == Init /\ [][Next]_vars

-----------------------------------------------------------------------------
(* SpecGeom: pointer input on window A: title drag, edge hover and resize,
   and the maximize button *)

NextGeom ==
  \/ DOMContentLoaded
  \/ \E e \in Points : TitleMouseDown("A", e)
  \/ \E e \in Points : FrameMouseDown("A", e)
  \/ \E e \in Points : MouseMove(e)
  \/ \E e \in Points, targetIsRoot \in BOOLEAN : MouseMoveOver("A", e, targetIsRoot)
  \/ MouseUp
  \/ MaximizeClick("A")

\* window B stays hidden
InitGeom == Init /\ ~dom["B"].display

SpecGeom == InitGeom /\ [][NextGeom]_vars

-----------------------------------------------------------------------------
(* SpecDrag: title drags of the two windows of the page, a second mousedown
   arriving while a session is active *)

DragPoints == {e \in Points : e.clientX >= 90 /\ e.clientY >= 24}

NextDrag ==
  \/ DOMContentLoaded
  \/ \E w \in {"A", "B"}, e \in DragPoints : TitleMouseDown(w, e)
  \/ \E e \in DragPoints : MouseMove(e)
  \/ \E w \in {"A", "B"}, e \in DragPoints : MouseMoveOver(w, e, FALSE)
  \/ MouseUp

\* both windows are displayed
InitDrag == Init /\ dom["B"].display

SpecDrag == InitDrag /\ [][NextDrag]_vars

-----------------------------------------------------------------------------
(* SpecFocus: create, focus, show, hide, openWindowById and the click on the
   background *)

NextFocus ==
  \/ DOMContentLoaded
  \/ \E s \in Surfaces : Create(s)
  \/ \E w \in Surfaces \cup {None} : Focus(w)
  \/ \E w \in Surfaces : Show(w)
  \/ \E w \in Surfaces : Hide(w)
  \/ \E s \in Surfaces : OpenWindowById(s)
  \/ BackgroundMouseDown

SpecFocus == Init /\ [][NextFocus]_vars

-----------------------------------------------------------------------------
(* SpecPage: the ways the page opens and closes its windows *)

NextPage ==
  \/ DOMContentLoaded
  \/ \E s \in Surfaces : OpenWindowById(s)
  \/ \E w \in Surfaces : Show(w)
  \/ \E w \in Surfaces : Hide(w)
  \/ \E w \in Surfaces : CloseClick(w)
  \/ \E s \in Surfaces : CloseHelper(s)

SpecPage == Init /\ [][NextPage]_vars

-----------------------------------------------------------------------------
(* SpecResize: resizing window A by its edges and corners, with the maximize
   button and viewport resizes in between *)

\* pointer positions over window A as first placed: its top right corner, its
\* left edge, its bottom edge; and one far to the upper left
ResizePoints ==
  {[clientX |-> 90, clientY |-> 24], [clientX |-> 40, clientY |-> 32],
   [clientX |-> 64, clientY |-> 50], [clientX |-> 10, clientY |-> 8]}

NextResize ==
  \/ DOMContentLoaded
  \/ \E e \in ResizePoints : FrameMouseDown("A", e)
  \/ \E e \in ResizePoints : MouseMove(e)
  \/ \E e \in ResizePoints : MouseMoveOver("A", e, TRUE)
  \/ MouseUp
  \/ MaximizeClick("A")
  \/ \E i \in 1..Len(AllRootSizes) : ViewportResize(i)

SpecResize == InitGeom /\ [][NextResize]_vars

-----------------------------------------------------------------------------
(* SpecThrow: title drags of window A with callbacks that throw *)

NextThrow ==
  \/ DOMContentLoaded
  \/ \E e \in DragPoints : TitleMouseDown("A", e)
  \/ \E e \in Points : MouseMove(e)
  \/ \E e \in DragPoints : MouseMoveOver("A", e, FALSE)
  \/ \E e \in Points, thrown \in Thrown : MouseMoveThrows(e, thrown)
  \/ MouseUp
  \/ \E thrown \in Thrown : MouseUpThrows(thrown)
  \/ MaximizeClick("A")

SpecThrow == InitGeom /\ [][NextThrow]_vars

-----------------------------------------------------------------------------
(* SpecBlog: the blog menu items and the links of the blogs' trees *)

NextBlog ==
  \/ DOMContentLoaded
  \/ \E b \in Blogs : MenuClick(b)
  \/ \E i \in 1..Len(blog.tasks), outcome \in Outcomes : TreeResponse(i, outcome)
  \/ \E i \in 1..Len(blog.tasks) : TreeText(i)
  \/ \E b \in Blogs, id \in ContentIds : LinkClick(b, id)
  \/ \E i \in 1..Len(blog.tasks), outcome \in Outcomes : EntriesResponse(i, outcome)
  \/ \E i \in 1..Len(blog.tasks) : EntriesText(i)

SpecBlog == Init /\ [][NextBlog]_vars

-----------------------------------------------------------------------------
(* Properties of the host, checked under Spec *)

Marked == {s \in Surfaces : dom[s].active}

Roots(ws) == {ws[i].root : i \in 1..Len(ws)}

RepositionedIn(log) == {log.repos[i].w : i \in 1..Len(log.repos)}

Increasing(zs) == \A i \in 1..Len(zs) : \A j \in 1..Len(zs) : i < j => zs[i].z < zs[j].z

\* C1: after every call of WindowHost.focus(w) at most one window is marked
\* active, and it is the argument of the most recent call; after focus(none)
\* no window is marked active. (Every handler that focuses is covered: the
\* handler's last focus argument is the active window, and the surfaces
\* carrying class "active" are exactly the active window, or none.)
C1_SingleActive ==
  /\ Cardinality(Marked) <= 1
  /\ Marked = IF host.activeWindow = None THEN {} ELSE {host.activeWindow}
  /\ ev.log.focus # <<>> =>
       LET last == ev.log.focus[Len(ev.log.focus)].w
       IN  /\ host.activeWindow = last
           /\ Marked = IF last = None THEN {} ELSE {last}

\* a focus(A) call that took the focus from B
C1_Witness ==
  /\ ev.type = "focus" /\ ev.w = "A"
  /\ ev.log.focus = <<[w |-> "A", prev |-> "B"]>>
  /\ Marked = {"A"}

\* C2: bringToFront is monotonic: every front-bringing call assigns a stacking
\* value strictly greater than the call before it and than every stacking
\* value in use, the host's counter never decreases, and with A, B, C created
\* in order, focusing B, C, A leaves activeWindow = A.
C2_Monotonic ==
  [][ /\ host'.maxZIndex >= host.maxZIndex
      /\ Increasing(gh'.zhist)
      /\ Increasing(ev'.log.zs)
      /\ \A i \in 1..Len(ev'.log.zs) :
           /\ ev'.log.zs[i].z > host.maxZIndex
           /\ \A s \in Surfaces : ev'.log.zs[i].z > dom[s].zIndex
      /\ ( /\ ev.type = "focus" /\ ev.w = "C"
           /\ ev'.type = "focus" /\ ev'.w = "A"
           /\ Len(gh'.zhist) = 3 /\ gh'.zhist[1].w = "B" )
         => host'.activeWindow = "A" ]_vars

\* A, B, C created in order (stacking values 1001..1003), then B, C, A brought
\* to the front in turn, the last by focus(A)
C2_Witness ==
  /\ [i \in 1..Len(host.windows) |-> host.windows[i].root] = <<"A", "B", "C">>
  /\ ev.type = "focus" /\ ev.w = "A"
  /\ Len(gh.zhist) = 3
  /\ gh.zhist[1] = [w |-> "B", z |-> StartZIndex + 4]
  /\ gh.zhist[2] = [w |-> "C", z |-> StartZIndex + 5]
  /\ gh.zhist[3] = [w |-> "A", z |-> StartZIndex + 6]
  /\ host.activeWindow = "A"

\* no surface is wrapped twice: the managed windows have distinct roots, and
\* the window of a wrapped surface is the instance its csWindow names
NoDoubleWrap(h, d) ==
  /\ \A i \in 1..Len(h.windows) : \A j \in 1..Len(h.windows) :
        h.windows[i].root = h.windows[j].root => i = j
  /\ \A i \in 1..Len(h.windows) :
        d[h.windows[i].root].csWindow = h.windows[i].inst
  /\ \A s \in Surfaces : d[s].csWindow # 0 => s \in Roots(h.windows)

\* C3: create(surface) is idempotent: on a surface that is already wrapped it
\* returns the existing instance and leaves the collection as it is; on a new
\* surface the collection grows by exactly one; no surface is wrapped twice.
C3_CreateIdempotent ==
  [][ /\ NoDoubleWrap(host', dom')
      /\ ev'.type = "create" =>
           /\ ev'.ret = [root |-> ev'.w, inst |-> dom'[ev'.w].csWindow]
           /\ IF dom[ev'.w].csWindow # 0
                THEN /\ ev'.ret.inst = dom[ev'.w].csWindow
                     /\ host'.windows = host.windows
                ELSE /\ host'.windows = Append(host.windows, ev'.ret)
                     /\ ev'.ret.inst = nextInst ]_vars

\* create(C) called again on the wrapped surface C (only that branch
\* repositions): the instance made by the first call is returned
C3_Witness ==
  /\ ev.type = "create" /\ ev.w = "C"
  /\ RepositionedIn(ev.log) = {"C"}
  /\ ev.ret = [root |-> "C", inst |-> 3]
  /\ Len(host.windows) = 3

\* C9: after openWindowById(id) the surface is displayed, its Window is in the
\* host's collection, and its stacking value is strictly greater than that of
\* every other managed window.
C9_OpenedOnTop ==
  ev.type = "openWindowById" =>
    /\ dom[ev.w].display
    /\ \E i \in 1..Len(host.windows) :
         host.windows[i] = [root |-> ev.w, inst |-> dom[ev.w].csWindow]
    /\ \A r \in Roots(host.windows) \ {ev.w} : dom[ev.w].zIndex > dom[r].zIndex

\* openWindowById on the known window A, which was hidden behind B and C
C9_Witness ==
  /\ ev.type = "openWindowById" /\ ev.w = "A"
  /\ RepositionedIn(ev.log) = {"A"}
  /\ Roots(host.windows) = {"A", "B", "C"}
  /\ dom["A"].display
  /\ Len(gh.zhist) = 3 /\ gh.zhist[1].w # "A"

-----------------------------------------------------------------------------
(* Properties of the drag singleton, checked under SpecGeom and SpecDrag *)

\* the delta of the pointer at e from the session's start point
FromStart(name, e) ==
  Callback(name, drag.object, e.clientX - gh.sess.x, e.clientY - gh.sess.y)

\* C4: in a session started with threshold T > 0, while no move has met the
\* threshold, a mousemove whose squared distance from the start point is below
\* T*T invokes no callback; the first one that meets or exceeds T*T invokes
\* dragMove with the full delta from the start point; every later mousemove of
\* the session invokes dragMove (no threshold test).
C4_Threshold ==
  [][ (ev'.type = "mousemove" /\ drag.object # None /\ gh.sess.T > 0) =>
        IF gh.sess.exceeded
          THEN ev'.log.cb =
                 <<Callback("dragMove", drag.object,
                            ev'.e.clientX - drag.x, ev'.e.clientY - drag.y)>>
          ELSE IF DistanceSquared(ev'.e, gh.sess.x, gh.sess.y) < gh.sess.T * gh.sess.T
            THEN ev'.log.cb = <<>>
            ELSE ev'.log.cb = <<FromStart("dragMove", ev'.e)>> ]_vars

\* a session on the maximized window A (threshold 10): a move 6 away from the
\* start was suppressed, the move 10 away is dispatched with delta (6, 8)
C4_Witness ==
  /\ ev.type = "mousemove"
  /\ gh.sess.T = TitleThreshold /\ gh.sess.target = "A"
  /\ gh.sess.suppressed /\ gh.sess.exceeded
  /\ ev.e = [clientX |-> gh.sess.x + 6, clientY |-> gh.sess.y + 8]
  /\ ev.log.cb = <<Callback("dragMove", "A", 6, 8)>>

\* C5 as stated: every session, whatever its threshold, invokes dragEnd
\* exactly once at the mouseup that ends it.
C5_AlwaysEnds ==
  [][ (ev'.type = "mouseup" /\ drag.object # None) =>
        ev'.log.cb = <<Callback("dragEnd", drag.object, 0, 0)>> ]_vars

EndCalls(log) == {i \in 1..Len(log.cb) : log.cb[i].name = "dragEnd"}

\* C5 (amended): a session started with threshold 0, or whose threshold some
\* move met or exceeded, invokes dragEnd exactly once, at the mouseup that
\* ends it; a session whose threshold T > 0 was never met ends at mouseup
\* without dragEnd; the target is cleared in both cases, and dragEnd is
\* invoked at no other time.
C5_EndsOnceUnlessPending ==
  [][ /\ (ev'.type = "mouseup" /\ drag.object # None) =>
           /\ drag'.object = None
           /\ IF gh.sess.T = 0 \/ gh.sess.exceeded
                THEN ev'.log.cb = <<Callback("dragEnd", drag.object, 0, 0)>>
                ELSE ev'.log.cb = <<>>
      /\ (ev'.type # "mouseup" \/ drag.object = None) => EndCalls(ev'.log) = {} ]_vars

\* the mouseup ending a threshold-10 session whose threshold was exceeded
C5_Witness ==
  /\ ev.type = "mouseup"
  /\ gh.sess.T = TitleThreshold /\ gh.sess.exceeded
  /\ ev.log.cb = <<Callback("dragEnd", gh.sess.target, 0, 0)>>
  /\ drag.object = None

\* C10: drag.start replaces any prior target: the active target is the target
\* of the most recent start, and every move and end callback goes to it.
C10_StartReplaces ==
  [][ /\ drag'.object # None => drag'.object = gh'.sess.target
      /\ ev'.type = "titleMouseDown" => drag'.object = ev'.w
      /\ \A i \in 1..Len(ev'.log.cb) :
           /\ ev'.log.cb[i].target = gh'.sess.target
           /\ ev'.log.cb[i].target = drag.object ]_vars

\* start(B) came while a session of A was active; a later move goes to B
C10_Witness ==
  /\ gh.sess.replaced /\ gh.sess.target = "B"
  /\ ev.type = "mousemove"
  /\ Len(ev.log.cb) = 1 /\ ev.log.cb[1].name = "dragMove" /\ ev.log.cb[1].target = "B"

-----------------------------------------------------------------------------
(* Properties of the geometry, checked under SpecGeom *)

\* the four constraints of reposition() on a window that is not maximized
Clamped(g, r) ==
  /\ g.y >= 0
  /\ g.y + TitleRegion <= r.height
  /\ g.x + g.width >= MinVisible
  /\ g.x + TitleRegion <= r.width

GeometryOf(g) == Geometry(g.x, g.y, g.width, g.height)

\* the handler before this one called maximize() on w, and nothing after it
\* touched the geometry: the maximize button, or a title drag to the top edge
JustMaximized(w) ==
  /\ win[w].maximized
  /\ \/ ev.type = "maximize" /\ ev.w = w
     \/ ev.type = "mousemove" /\ w \in RepositionedIn(ev.log)

\* C6 as stated: maximize() twice in a row restores x, y, width and height
\* from any state that is not maximized.
C6_RoundTripAlways ==
  [][ ev'.type = "maximize" =>
        IF ~win[ev'.w].maximized
          THEN /\ win'[ev'.w].maximized
               /\ win'[ev'.w].oldPosition = <<GeometryOf(win[ev'.w])>>
          ELSE /\ ~win'[ev'.w].maximized
               /\ JustMaximized(ev'.w) =>
                    GeometryOf(win'[ev'.w]) = win[ev'.w].oldPosition[1] ]_vars

\* C6 (amended): maximize() on a window that is not maximized saves its
\* geometry; a second maximize() right after it leaves the window not
\* maximized with the saved width and height, and with the saved x and y when
\* the saved geometry satisfies the clamp of reposition().
C6_RoundTripWhenClamped ==
  [][ ev'.type = "maximize" =>
        IF ~win[ev'.w].maximized
          THEN /\ win'[ev'.w].maximized
               /\ win'[ev'.w].oldPosition = <<GeometryOf(win[ev'.w])>>
          ELSE /\ ~win'[ev'.w].maximized
               /\ JustMaximized(ev'.w) =>
                    /\ win'[ev'.w].width = win[ev'.w].oldPosition[1].width
                    /\ win'[ev'.w].height = win[ev'.w].oldPosition[1].height
                    /\ Clamped(win[ev'.w].oldPosition[1], root) =>
                         GeometryOf(win'[ev'.w]) = win[ev'.w].oldPosition[1] ]_vars

\* window A, moved from where it was first placed, maximized and restored by
\* two maximize() calls in a row
C6_Witness ==
  /\ ev.type = "maximize" /\ ev.w = "A"
  /\ gh.prev = [type |-> "maximize", w |-> "A"]
  /\ ~win["A"].maximized
  /\ win["A"].oldPosition = <<GeometryOf(win["A"])>>
  /\ Clamped(GeometryOf(win["A"]), root)
  /\ win["A"].x # Layout["A"].left - HostLeft

\* C7 as stated: after reposition() a window that had y < 0 has y = 0, and a
\* window that had x + width < 50 has x = 50 - width.
C7_ClampAnyWindow ==
  \A i \in 1..Len(ev.log.repos) :
    LET r == ev.log.repos[i]
    IN  /\ r.before.y < 0 => r.after.y = 0
        /\ r.before.x + r.before.width < MinVisible =>
             r.after.x = MinVisible - r.after.width

\* C7 (amended): the same, of a window that is not maximized.
C7_ClampNotMaximized ==
  \A i \in 1..Len(ev.log.repos) :
    LET r == ev.log.repos[i]
    IN  ~r.maximized =>
          /\ r.before.y < 0 => r.after.y = 0
          /\ r.before.x + r.before.width < MinVisible =>
               /\ r.after.x = MinVisible - r.after.width
               /\ r.after.width = r.before.width

\* a reposition() of a window dragged above the top and off the left edge
C7_Witness ==
  \E i \in 1..Len(ev.log.repos) :
    LET r == ev.log.repos[i]
    IN  /\ ~r.maximized
        /\ r.before.y < 0
        /\ r.before.x + r.before.width < MinVisible

\* C8 as stated: after reposition() x, y, width and height are non-negative.
C8_NonNegative ==
  \A i \in 1..Len(ev.log.repos) :
    LET r == ev.log.repos[i]
    IN  r.after.x >= 0 /\ r.after.y >= 0 /\ r.after.width >= 0 /\ r.after.height >= 0

Min(a, b) == IF a <= b THEN a ELSE b

\* C8 (amended): after reposition() a maximized window has x = y = 0 and the
\* root's width and height; a window that is not maximized keeps its width and
\* height (negative after a resize past the opposite edge), has y >= 0 when
\* the root is at least 30 high, and has x >= 50 - width or x >= root width -
\* 30, whichever is less (x is negative for a window wider than 50 at the left
\* edge).
C8_Bounds ==
  \A i \in 1..Len(ev.log.repos) :
    LET r == ev.log.repos[i]
    IN  IF r.maximized
          THEN r.after = Geometry(0, 0, root.width, root.height)
          ELSE /\ r.after.width = r.before.width
               /\ r.after.height = r.before.height
               /\ root.height >= TitleRegion => r.after.y >= 0
               /\ r.after.x >= Min(MinVisible - r.after.width, root.width - TitleRegion)

\* a reposition() that leaves x negative, at 50 - width
C8_Witness ==
  \E i \in 1..Len(ev.log.repos) :
    LET r == ev.log.repos[i]
    IN  /\ ~r.maximized
        /\ r.after.x < 0 /\ r.after.x = MinVisible - r.after.width
        /\ r.after.y >= 0

-----------------------------------------------------------------------------
(* Properties of the drag singleton's error handling, checked under SpecThrow *)

\* C11: an error thrown by dragMove or dragEnd is caught and logged inside the
\* listener: after a throwing dragMove the session is still active on the same
\* target and the last point is the event's; every later mousemove of the
\* session is dispatched; after mouseup the target is cleared, also when
\* dragEnd threw.
C11_ErrorsContained ==
  [][ /\ (ev'.type = "mousemove" /\ ev'.ret \in Thrown) =>
           /\ ev'.log.err = <<"dragMove error">>
           /\ drag'.object = drag.object
           /\ drag'.x = ev'.e.clientX /\ drag'.y = ev'.e.clientY
      /\ (ev'.type = "mousemove" /\ drag.object # None /\ gh.sess.threw) =>
           ev'.log.cb = <<Callback("dragMove", drag.object,
                                   ev'.e.clientX - drag.x, ev'.e.clientY - drag.y)>>
      /\ ev'.type = "mouseup" =>
           /\ drag'.object = None
           /\ ev'.log.err = IF ev'.ret \in Thrown THEN <<"dragEnd error">> ELSE <<>> ]_vars

\* a mousemove dispatched to A after a dragMove of the same session threw
C11_Witness ==
  /\ ev.type = "mousemove"
  /\ gh.sess.threw /\ gh.sess.target = "A"
  /\ ev.log.err = <<>>
  /\ Len(ev.log.cb) = 1 /\ ev.log.cb[1].target = "A"
  /\ drag.object = "A"

-----------------------------------------------------------------------------
(* Properties of the blog loader, checked under SpecBlog *)

C13_FailureRendered ==
  [][ blog'.last.outcome \in {"notok", "rejected"} /\ blog' # blog =>
        IF blog'.last.type = "treeResponse"
          THEN blog'.tree[blog'.last.b] = "failed"
          ELSE blog'.content[blog'.last.b] = Content("failed", None) ]_vars

-----------------------------------------------------------------------------
(* More properties of the drag singleton and of the geometry *)

\* the mousemove at e falls short of the pending threshold
Suppressed(e) ==
  drag.threshold # 0 /\ DistanceSquared(e, drag.x, drag.y) < drag.threshold

\* C14 as stated: while a session is active, every mousemove, suppressed or
\* not, updates the last recorded point.
C14_PointAlwaysUpdated ==
  [][ (ev'.type = "mousemove" /\ drag.object # None) =>
        drag'.x = ev'.e.clientX /\ drag'.y = ev'.e.clientY ]_vars

\* C14 (amended): while a session is active, every mousemove that is
\* dispatched to the target updates the last recorded point; a mousemove
\* suppressed by the pending threshold leaves it at the session's start point.
C14_PointUpdatedWhenDispatched ==
  [][ (ev'.type = "mousemove" /\ drag.object # None) =>
        IF Suppressed(ev'.e)
          THEN /\ drag'.x = gh.sess.x /\ drag'.y = gh.sess.y
               /\ drag'.threshold = drag.threshold
          ELSE /\ drag'.x = ev'.e.clientX /\ drag'.y = ev'.e.clientY
               /\ drag'.threshold = 0 ]_vars

\* a suppressed mousemove of a threshold-10 session: the recorded point is
\* still the start point, 6 to the left of the pointer
C14_Witness ==
  /\ ev.type = "mousemove" /\ ev.log.cb = <<>>
  /\ drag.object = "A" /\ drag.threshold = TitleThreshold * TitleThreshold
  /\ drag.x = gh.sess.x /\ drag.y = gh.sess.y
  /\ ev.e.clientX = drag.x + 6 /\ ev.e.clientY = drag.y


\* C15 as stated: after reposition() of a window that is not maximized the
\* four clamp constraints hold together, hence after every drag end.
C15_AllFourHold ==
  \A i \in 1..Len(ev.log.repos) :
    LET r == ev.log.repos[i]
    IN  ~r.maximized => Clamped(r.after, root)

\* C15 (amended): after reposition() of a window that is not maximized,
\* y >= 0 and y + 30 <= root height hold when the root is at least 30 high,
\* and x + width >= 50 and x + 30 <= root width hold when width >= 80 - root
\* width (otherwise no y, resp. no x, satisfies the pair); a drag end finishes
\* with reposition(), so the same holds of the window after every drag end.
C15_HoldWhenSatisfiable ==
  /\ \A i \in 1..Len(ev.log.repos) :
       LET r == ev.log.repos[i]
       IN  ~r.maximized =>
             /\ root.height >= TitleRegion =>
                  r.after.y >= 0 /\ r.after.y + TitleRegion <= root.height
             /\ r.after.width >= MinVisible + TitleRegion - root.width =>
                  /\ r.after.x + r.after.width >= MinVisible
                  /\ r.after.x + TitleRegion <= root.width
  /\ \A i \in 1..Len(ev.log.cb) :
       ev.log.cb[i].name = "dragEnd" /\ ev.log.err = <<>> =>
         /\ Len(ev.log.repos) = 1
         /\ ev.log.repos[1].w = ev.log.cb[i].target
         /\ ev.log.repos[1].after = GeometryOf(win[ev.log.cb[i].target])

\* a drag end that brings a window left outside the clamp back inside it
C15_Witness ==
  /\ ev.type = "mouseup"
  /\ Len(ev.log.cb) = 1 /\ ev.log.cb[1].name = "dragEnd"
  /\ Len(ev.log.repos) = 1
  /\ ~ev.log.repos[1].maximized
  /\ ~Clamped(ev.log.repos[1].before, root)
  /\ Clamped(ev.log.repos[1].after, root)
  /\ Clamped(GeometryOf(win["A"]), root)


\* C16: whenever a window is maximized, its geometry fills the bounding root:
\* x = 0, y = 0, width and height the root's, after every completed handler.
C16_MaximizedFillsRoot ==
  \A w \in Surfaces :
    Wrapped(w) /\ win[w].maximized =>
      GeometryOf(win[w]) = Geometry(0, 0, root.width, root.height)

\* C17: a dragMove on a maximized window that is not resizing, the pointer not
\* within 5px of the root's top, un-maximizes it: width and height are the
\* saved ones and x = floor(px - width * clientX / rootWidth).
C17_UnmaximizeAnchors ==
  [][ (/\ ev'.type = "mousemove" /\ drag.object # None /\ ~Suppressed(ev'.e)
       /\ win[drag.object].maximized /\ ~win[drag.object].resizing
       /\ ev'.e.clientY - root.top >= EdgeMaximizeDist) =>
        LET w   == drag.object
            old == win[w].oldPosition[1]
        IN  /\ ~win'[w].maximized
            /\ win'[w].width = old.width /\ win'[w].height = old.height
            /\ win'[w].x = AnchorX(Cur, old.width, ev'.e) ]_vars

\* C18: a dragMove during a resize keeps the edge opposite to the dragged one
\* fixed: on an axis with a negative edge flag the origin moves by the delta
\* and the size shrinks by it; with a positive flag only the size changes;
\* with flag 0 neither changes.
C18_ResizeFrame ==
  [][ (/\ ev'.type = "mousemove" /\ drag.object # None /\ ~Suppressed(ev'.e)
       /\ win[drag.object].resizing) =>
        LET g  == win[drag.object]
            g2 == win'[drag.object]
            dx == ev'.e.clientX - drag.x
            dy == ev'.e.clientY - drag.y
        IN  /\ g.resizeX < 0 => /\ g2.x = g.x + dx /\ g2.width = g.width - dx
                                /\ g2.x + g2.width = g.x + g.width
            /\ g.resizeX > 0 => g2.x = g.x /\ g2.width = g.width + dx
            /\ g.resizeX = 0 => g2.x = g.x /\ g2.width = g.width
            /\ g.resizeY < 0 => /\ g2.y = g.y + dy /\ g2.height = g.height - dy
                                /\ g2.y + g2.height = g.y + g.height
            /\ g.resizeY > 0 => g2.y = g.y /\ g2.height = g.height + dy
            /\ g.resizeY = 0 => g2.y = g.y /\ g2.height = g.height
            /\ g2.resizeX = g.resizeX /\ g2.resizeY = g.resizeY /\ g2.resizing ]_vars

\* window A resized by its left edge: the left edge has moved, the right edge
\* (x + width) and the vertical extent are where they were first placed
C18_Witness ==
  /\ ev.type = "mousemove" /\ Len(ev.log.cb) = 1 /\ ev.log.cb[1].dx # 0
  /\ ev.log.cb[1].dy # 0
  /\ drag.object = "A" /\ win["A"].resizing /\ ~win["A"].maximized
  /\ win["A"].resizeX = -1 /\ win["A"].resizeY = 0
  /\ win["A"].x # Layout["A"].left - HostLeft
  /\ win["A"].x + win["A"].width = Layout["A"].left - HostLeft + Layout["A"].width
  /\ win["A"].y = Layout["A"].top - HostTop /\ win["A"].height = Layout["A"].height

\* C20: a window that is resizing is the drag singleton's target and is not
\* maximized.
C20_ResizingInsideSession ==
  \A w \in Surfaces :
    Wrapped(w) /\ win[w].resizing => drag.object = w /\ ~win[w].maximized


\* C19: a hidden window is never the host's active window: if activeWindow is
\* not none, its surface is displayed.
C19_ActiveIsDisplayed ==
  host.activeWindow # None => dom[host.activeWindow].display

-----------------------------------------------------------------------------
(* Properties of the stacking order, checked under SpecFocus *)

\* C21: whenever the host has an active window, that window's stacking value
\* is the host's counter and is strictly greater than the stacking value of
\* every other managed window.
C21_ActiveOnTop ==
  host.activeWindow # None =>
    /\ dom[host.activeWindow].zIndex = host.maxZIndex
    /\ \A o \in Roots(host.windows) \ {host.activeWindow} :
         dom[o].zIndex < dom[host.activeWindow].zIndex

\* window A on top and active after openWindowById, window B having been
\* focused by the handler before, all three surfaces managed
C21_Witness ==
  /\ ev.type = "openWindowById" /\ ev.w = "A"
  /\ gh.prev = [type |-> "focus", w |-> "B"]
  /\ host.activeWindow = "A"
  /\ Roots(host.windows) = Surfaces
  /\ dom["A"].zIndex = host.maxZIndex
  /\ dom["B"].zIndex > dom["C"].zIndex /\ dom["C"].zIndex > StartZIndex

-----------------------------------------------------------------------------
(* Idempotence of reposition(), checked under SpecResize *)

\* Entry j of the next handler's repositions is a second call in a row after
\* entry i of the last handler's: the same window, no reposition of it in
\* between, the same maximized flag and root size, and the geometry the first
\* call returned.
SecondCall(i, j) ==
  LET r0 == ev.log.repos[i]
      r  == ev'.log.repos[j]
  IN  /\ r.w = r0.w
      /\ \A k \in (i + 1)..Len(ev.log.repos) : ev.log.repos[k].w # r0.w
      /\ \A k \in 1..(j - 1) : ev'.log.repos[k].w # r0.w
      /\ r.maximized = r0.maximized
      /\ root' = root
      /\ r.before = r0.after

\* C22 as stated: reposition() twice in a row yields the geometry of
\* reposition() once, for every geometry, maximized flag and root size.
C22_Idempotent ==
  [][ \A i \in 1..Len(ev.log.repos) : \A j \in 1..Len(ev'.log.repos) :
        SecondCall(i, j) => ev'.log.repos[j].after = ev'.log.repos[j].before ]_vars

\* C22 (amended): reposition() twice in a row yields the geometry of
\* reposition() once for a maximized window, and for a window that is not
\* maximized when the root is at least 30 high and width >= 80 - root width;
\* a second call changes y again only when the root is lower than 30, and x
\* again only when width < 80 - root width; width and height never change.
C22_IdempotentWhenSatisfiable ==
  [][ \A i \in 1..Len(ev.log.repos) : \A j \in 1..Len(ev'.log.repos) :
        SecondCall(i, j) =>
          LET r == ev'.log.repos[j]
          IN  IF r.maximized THEN r.after = r.before
              ELSE /\ r.after.width = r.before.width
                   /\ r.after.height = r.before.height
                   /\ root'.height >= TitleRegion => r.after.y = r.before.y
                   /\ r.before.width >= MinVisible + TitleRegion - root'.width =>
                        r.after.x = r.before.x ]_vars

\* a drag end right after a viewport resize during a resize session of window
\* A: the resize handler's reposition() had clamped the top edge to y = 0, the
\* drag end's reposition() leaves the geometry as it is
C22_Witness ==
  /\ gh.prev.type = "resize" /\ ev.type = "mouseup"
  /\ Len(ev.log.repos) = 1
  /\ ev.log.repos[1].w = "A" /\ ~ev.log.repos[1].maximized
  /\ ev.log.repos[1].after = ev.log.repos[1].before
  /\ ev.log.repos[1].after.y = 0
  /\ ev.log.repos[1].after.height > Layout["A"].height
  /\ root.height >= TitleRegion

====
